---------------------------- MODULE Spec2Model ----------------------------
(***************************************************************************)
(* Model of relay-mongodb-connection (src/index.js): the cursor codec, the *)
(* offset window and the three connection builders                         *)
(* connectionFromMongoCursor, connectionFromMongooseQuery and              *)
(* connectionFromMongooseAggregate.                                        *)
(*                                                                         *)
(* Strings are sequences of character codes.  JavaScript values that the   *)
(* code tells apart are tagged tuples: undefined, null, NaN, Num(n) and    *)
(* Str(s).  A record of the collection is its absolute 0-based position.   *)
(***************************************************************************)
EXTENDS Integers, Sequences, FiniteSets, TLC

(***************************************************************************)
(* Bounds                                                                  *)
(***************************************************************************)
\* largest size of the collection
MaxCount == 2

\* largest value of `first` / `last`: the size of the largest collection
MaxArg == MaxCount

\* largest size of the collection, and largest page size, of a paging client
MaxWalkCount == 4

(***************************************************************************)
(* JavaScript values                                                       *)
(***************************************************************************)
undefined == <<"undefined">>

null == <<"null">>

NaN == <<"NaN">>

Num(n) == <<"number", n>>

Str(s) == <<"string", s>>

IsNum(v) == Len(v) = 2 /\ v[1] = "number"

IsStr(v) == Len(v) = 2 /\ v[1] = "string"

\* the truthiness test of `after ? ... : ...`: undefined and "" are falsy
Truthy(v) == IsStr(v) /\ Len(v[2]) > 0

Max(a, b) == IF a >= b THEN a ELSE b

Min(a, b) == IF a <= b THEN a ELSE b

\* F(v), with v evaluated once before F uses it (TLC evaluates an argument
\* again at each of its uses)
Strictly(F(_), v) == CHOOSE r \in {F(x) : x \in {v}} : TRUE

(***************************************************************************)
(* Cursor codec (src/index.js lines 1-31)                                  *)
(***************************************************************************)
\* 'mongodbconnection:'
PREFIX == <<109, 111, 110, 103, 111, 100, 98, 99, 111, 110, 110, 101, 99, 116, 105, 111, 110, 58>>

\* the base64 alphabet A-Z a-z 0-9 + /: the character of a 6-bit value
B64Char(v) ==
  IF v < 26 THEN 65 + v
  ELSE IF v < 52 THEN 71 + v
  ELSE IF v < 62 THEN v - 4
  ELSE IF v = 62 THEN 43 ELSE 47

B64Pad == <<61>>

IsB64Char(c) ==
  \/ c >= 65 /\ c <= 90
  \/ c >= 97 /\ c <= 122
  \/ c >= 48 /\ c <= 57
  \/ c = 43
  \/ c = 47

\* the 6-bit value of a character of the alphabet
B64Value(c) ==
  IF c >= 65 /\ c <= 90 THEN c - 65
  ELSE IF c >= 97 /\ c <= 122 THEN c - 71
  ELSE IF c >= 48 /\ c <= 57 THEN c + 4
  ELSE IF c = 43 THEN 62 ELSE 63

\* the j-th (0-based) character of the base64 text of bytes: every group of
\* three bytes gives four characters, a last group of one or two bytes is
\* padded
B64EncodedChar(bytes, j) ==
  LET g == 3 * (j \div 4)
      byte(k) == IF g + k <= Len(bytes) THEN bytes[g + k] ELSE 0
      r == j % 4
  IN  IF r = 0 THEN B64Char(byte(1) \div 4)
      ELSE IF r = 1 THEN B64Char((byte(1) % 4) * 16 + (byte(2) \div 16))
      ELSE IF r = 2 THEN IF g + 2 > Len(bytes) THEN B64Pad[1]
                         ELSE B64Char((byte(2) % 16) * 4 + (byte(3) \div 64))
      ELSE IF g + 3 > Len(bytes) THEN B64Pad[1]
           ELSE B64Char(byte(3) % 64)

B64EncodeBytes(bytes) ==
  [i \in 1..(4 * ((Len(bytes) + 2) \div 3)) |-> B64EncodedChar(bytes, i - 1)]

B64Values(chars) == [i \in 1..Len(chars) |-> B64Value(chars[i])]

\* the 6-bit values of a base64 text: the text ends at the first padding
\* character and characters outside the alphabet are skipped
B64Sextets(text) ==
  LET pads == {i \in 1..Len(text) : text[i] = B64Pad[1]}
      end == IF pads = {} THEN Len(text)
             ELSE (CHOOSE i \in pads : \A k \in pads : i <= k) - 1
  IN  Strictly(B64Values, SelectSeq(SubSeq(text, 1, end), IsB64Char))

\* the k-th (0-based) byte of 6-bit values v: four values give three bytes,
\* and a last group of two or three values gives one or two
B64DecodedByte(v, k) ==
  LET g == 4 * (k \div 3)
      r == k % 3
  IN  IF r = 0 THEN v[g + 1] * 4 + (v[g + 2] \div 16)
      ELSE IF r = 1 THEN (v[g + 2] % 16) * 16 + (v[g + 3] \div 4)
      ELSE (v[g + 3] % 4) * 64 + v[g + 4]

B64DecodeSextets(v) ==
  [i \in 1..((Len(v) * 3) \div 4) |-> B64DecodedByte(v, i - 1)]

\* the bytes of a string in the 'ascii' encoding
AsciiBytes(str) == [i \in 1..Len(str) |-> str[i] % 256]

\* the string of bytes in the 'ascii' encoding, which drops the high bit
AsciiString(bytes) == [i \in 1..Len(bytes) |-> bytes[i] % 128]

\* (new Buffer(str, 'ascii')).toString('base64')
base64(str) == Strictly(B64EncodeBytes, AsciiBytes(str))

\* (new Buffer(b64, 'base64')).toString('ascii')
unbase64(b64) == Strictly(AsciiString, Strictly(B64DecodeSextets, B64Sextets(b64)))

\* String.prototype.substring(start) with 0-based start
substring(s, start) == SubSeq(s, start + 1, Len(s))

IsDigit(c) == c >= 48 /\ c <= 57

IsWhiteSpace(c) == c \in {9, 10, 11, 12, 13, 32}

\* the first position from `from` on whose character fails Test (Len(s) + 1
\* when there is none)
FirstNot(s, from, Test(_)) ==
  CHOOSE i \in from..(Len(s) + 1) :
    /\ i = Len(s) + 1 \/ ~Test(s[i])
    /\ \A k \in from..(i - 1) : Test(s[k])

\* the digits s[from..to] read in base 10
DigitsValue(s, from, to) ==
  LET value[k \in (from - 1)..to] ==
        IF k < from THEN 0 ELSE value[k - 1] * 10 + (s[k] - 48)
  IN  value[to]

\* parseInt(s, 10): white space, an optional sign, then the longest run of
\* digits; NaN when no digit follows
parseInt(s) ==
  LET sign == FirstNot(s, 1, IsWhiteSpace)
      signed == sign <= Len(s) /\ s[sign] \in {43, 45}
      from == IF signed THEN sign + 1 ELSE sign
      to == FirstNot(s, from, IsDigit) - 1
  IN  IF to < from THEN NaN
      ELSE IF signed /\ s[sign] = 45 THEN Num(0 - DigitsValue(s, from, to))
      ELSE Num(DigitsValue(s, from, to))

RECURSIVE DecimalDigits(_)
DecimalDigits(n) ==
  IF n < 10 THEN <<48 + n>>
  ELSE DecimalDigits(n \div 10) \o <<48 + (n % 10)>>

\* the string a number concatenates as in PREFIX + offset
NumberToString(n) ==
  IF n < 0 THEN <<45>> \o DecimalDigits(0 - n) ELSE DecimalDigits(n)

cursorToOffset(cursor) == Strictly(parseInt, substring(unbase64(cursor), Len(PREFIX)))

isNaN(v) == v = NaN

\* a variant that takes a cursor that decodes to NaN for offset 0 instead of
\* the default
getOffsetNaNAsZero(cursor, defaultOffset) ==
  IF cursor = undefined THEN defaultOffset
  ELSE LET offset == cursorToOffset(cursor[2])
       IN  IF isNaN(offset) THEN 0 ELSE offset[2]

getOffsetWithDefault(cursor, defaultOffset) ==
  IF cursor = undefined THEN defaultOffset
  ELSE LET offset == cursorToOffset(cursor[2])
       IN  IF isNaN(offset) THEN defaultOffset ELSE offset[2]

offsetToCursor(offset) == Strictly(base64, PREFIX \o NumberToString(offset))

(***************************************************************************)
(* The offset window (src/index.js lines 42-56, 95-110, 162-177)           *)
(***************************************************************************)
MongoCursor == "connectionFromMongoCursor"

MongooseQuery == "connectionFromMongooseQuery"

MongooseAggregate == "connectionFromMongooseAggregate"

Bindings == {MongoCursor, MongooseQuery, MongooseAggregate}

\* a variant that starts at the `after` record instead of the one behind it
StartOffsetNoStep(afterOffset) == Max(-1, afterOffset)

\* let startOffset = Math.max(-1, afterOffset) + 1
StartOffset(afterOffset) == Max(-1, afterOffset) + 1

\* let endOffset = Math.min(count, beforeOffset)
EndOffset(count, beforeOffset) == Min(count, beforeOffset)

\* if (first !== undefined) endOffset = Math.min(endOffset, startOffset + first)
ApplyFirst(first, startOffset, endOffset) ==
  IF first # undefined THEN Min(endOffset, startOffset + first[2]) ELSE endOffset

\* if (last !== undefined) startOffset = Math.max(startOffset, endOffset - last)
\* in connectionFromMongoCursor, Math.min(...) in the two mongoose bindings
ApplyLast(binding, last, startOffset, endOffset) ==
  IF last # undefined
  THEN IF binding = MongoCursor
       THEN Max(startOffset, endOffset - last[2])
       ELSE Min(startOffset, endOffset - last[2])
  ELSE startOffset

\* const skip = Math.max(startOffset, 0)
Skip(startOffset) == Max(startOffset, 0)

\* const limit = endOffset - startOffset
Limit(startOffset, endOffset) == endOffset - startOffset

\* the locals of a call from the two decoded offsets, up to skip and limit
WindowOf(binding, args, count, beforeOffset, afterOffset) ==
  LET startOffset0 == StartOffset(afterOffset)
      endOffset == ApplyFirst(args.first, startOffset0, EndOffset(count, beforeOffset))
      startOffset == ApplyLast(binding, args.last, startOffset0, endOffset)
  IN  [count |-> count,
       beforeOffset |-> beforeOffset,
       afterOffset |-> afterOffset,
       startOffset |-> startOffset,
       endOffset |-> endOffset,
       skip |-> Skip(startOffset),
       limit |-> Limit(startOffset, endOffset)]

\* the locals of a call once count is known: const beforeOffset =
\* getOffsetWithDefault(before, count), const afterOffset =
\* getOffsetWithDefault(after, -1), and what follows from them
Window(binding, args, count) ==
  Strictly(LAMBDA beforeOffset :
             Strictly(LAMBDA afterOffset :
                        WindowOf(binding, args, count, beforeOffset, afterOffset),
                      getOffsetWithDefault(args.after, -1)),
           getOffsetWithDefault(args.before, count))

(***************************************************************************)
(* The data source: a static ordered collection of totalCount records and  *)
(* source objects that carry a skip/limit configuration.                   *)
(***************************************************************************)
Unconfigured == [skip |-> undefined, limit |-> undefined]

\* the bindings that work on a duplicate of the caller's object:
\* inMongoCursor.clone() and cloneAggregation(aggr); connectionFromMongooseQuery
\* uses the caller's query itself (const mongooseQuery = query)
Duplicates(binding) == binding # MongooseQuery

\* cursor.skip(skip); cursor.limit(limit)
Configure(cfg, skip, limit) == [cfg EXCEPT !.skip = Num(skip), !.limit = Num(limit)]

\* what a fetch may do with the configured limit: a positive limit is
\* applied, 0 or none does not limit at all, and for a negative limit the
\* source may apply its absolute value, return nothing or reject
FetchOutcomes(cfg) ==
  IF IsNum(cfg.limit) /\ cfg.limit[2] < 0 THEN {"abs", "empty", "reject"} ELSE {"ok"}

\* the positions toArray() / find() / exec() return for a configuration
Fetch(cfg, count, outcome) ==
  LET skip == IF IsNum(cfg.skip) THEN cfg.skip[2] ELSE 0
      limit == IF IsNum(cfg.limit) THEN cfg.limit[2] ELSE 0
      size == IF limit = 0 THEN count
              ELSE IF limit > 0 THEN limit
              ELSE IF outcome = "abs" THEN 0 - limit ELSE 0
      last == Min(skip + size, count)
  IN  [i \in 1..Max(last - skip, 0) |-> skip + i - 1]

(***************************************************************************)
(* Edges and page info (src/index.js lines 65-88)                          *)
(***************************************************************************)
\* slice.map(mapper) when typeof mapper === 'function'; a node keeps the
\* absolute position of its record and whether the mapper was applied
MapSlice(slice, mapper) ==
  [i \in 1..Len(slice) |-> [pos |-> slice[i], mapped |-> mapper]]

\* slice.map((value, index) => ({cursor: offsetToCursor(startOffset + index), node: value}))
Edges(nodes, startOffset) ==
  [i \in 1..Len(nodes) |->
     [cursor |-> offsetToCursor(startOffset + (i - 1)), node |-> nodes[i]]]

\* a variant that ignores `after`
LowerBoundZero(after, afterOffset) == 0

\* const lowerBound = after ? (afterOffset + 1) : 0
LowerBound(after, afterOffset) == IF Truthy(after) THEN afterOffset + 1 ELSE 0

\* const upperBound = before ? Math.min(beforeOffset, count) : count
UpperBound(before, beforeOffset, count) ==
  IF Truthy(before) THEN Min(beforeOffset, count) ELSE count

\* hasPreviousPage: last !== null ? startOffset > lowerBound : false
HasPreviousPage(last, startOffset, lowerBound) ==
  IF last # null THEN startOffset > lowerBound ELSE FALSE

\* a variant that reports a next page when the window ends at the upper bound
HasNextPageInclusive(first, endOffset, upperBound) ==
  IF first # null THEN endOffset <= upperBound ELSE FALSE

\* hasNextPage: first !== null ? endOffset < upperBound : false
HasNextPage(first, endOffset, upperBound) ==
  IF first # null THEN endOffset < upperBound ELSE FALSE

\* the returned connection, from the edges and the call's locals
ConnectionOfEdges(edges, args, w) ==
  LET lowerBound == LowerBound(args.after, w.afterOffset)
      upperBound == UpperBound(args.before, w.beforeOffset, w.count)
  IN  [edges |-> edges,
       pageInfo |->
         [startCursor |-> IF Len(edges) > 0 THEN Str(edges[1].cursor) ELSE null,
          endCursor |-> IF Len(edges) > 0 THEN Str(edges[Len(edges)].cursor) ELSE null,
          hasPreviousPage |-> HasPreviousPage(args.last, w.startOffset, lowerBound),
          hasNextPage |-> HasNextPage(args.first, w.endOffset, upperBound)]]

\* the returned connection, from the fetched slice and the call's locals
Connection(slice, args, mapper, w) ==
  Strictly(LAMBDA edges : ConnectionOfEdges(edges, args, w),
           Edges(MapSlice(slice, mapper), w.startOffset))

(***************************************************************************)
(* State                                                                   *)
(***************************************************************************)
VARIABLES
  totalCount,  \* the size of the static collection
  source,      \* the caller-supplied source object of each binding: its skip/limit
  call,        \* the calls in flight: position, arguments, locals, result
  walk         \* a client paging forward through the collection

vars == <<totalCount, source, call, walk>>

Calls == {1, 2}

NoArgs == [after |-> undefined, before |-> undefined, first |-> undefined, last |-> undefined]

NoWindow == Window(MongoCursor, NoArgs, 0)

NoConnection == Connection(<< >>, NoArgs, FALSE, NoWindow)

Idle ==
  [pc |-> "idle", binding |-> MongoCursor, args |-> NoArgs, mapper |-> FALSE,
   own |-> Unconfigured, w |-> NoWindow, fetchInvoked |-> FALSE,
   outcome |-> "ok", result |-> NoConnection]

WalkOff ==
  [state |-> "off", binding |-> MongoCursor, mapper |-> FALSE, n |-> 0,
   after |-> undefined, acc |-> << >>, sizes |-> << >>]

\* the object a call configures and fetches from: its own duplicate, or the
\* caller's object when the binding makes none
Target(c) == IF Duplicates(call[c].binding) THEN call[c].own ELSE source[call[c].binding]

(***************************************************************************)
(* One call, between its suspension points                                 *)
(***************************************************************************)
\* entry up to `await count()`: duplicate the source, read the arguments
Call(c, binding, args, mapper) ==
  /\ call[c].pc = "idle"
  /\ call' = [call EXCEPT ![c] =
                [Idle EXCEPT !.pc = "count", !.binding = binding, !.args = args,
                             !.mapper = mapper,
                             !.own = IF Duplicates(binding) THEN source[binding]
                                     ELSE Unconfigured]]
  /\ UNCHANGED <<totalCount, source, walk>>

\* count resolves: the window, skip() and limit(), then either the short
\* circuit to the returned connection (limit === 0) or the fetch is started
\* (the singleton set makes TLC compute the window once)
CountResolved(c) ==
  /\ call[c].pc = "count"
  /\ \E w \in {Window(call[c].binding, call[c].args, totalCount)} :
       /\ call' = [call EXCEPT ![c] =
                     [@ EXCEPT !.pc = IF w.limit = 0 THEN "done" ELSE "fetch",
                               !.w = w,
                               !.own = IF Duplicates(call[c].binding)
                                       THEN Configure(@, w.skip, w.limit) ELSE @,
                               !.fetchInvoked = w.limit # 0,
                               !.result = IF w.limit = 0
                                          THEN Connection(<< >>, call[c].args, call[c].mapper, w)
                                          ELSE @]]
       /\ source' = IF Duplicates(call[c].binding) THEN source
                    ELSE [source EXCEPT ![call[c].binding] = Configure(@, w.skip, w.limit)]
  /\ UNCHANGED <<totalCount, walk>>

\* the fetch resolves (or rejects): the source runs with the configuration
\* its object holds at that moment; then mapper, edges, page info, return
FetchResolved(c) ==
  /\ call[c].pc = "fetch"
  /\ \E cfg \in {Target(c)} : \E outcome \in FetchOutcomes(cfg) :
       call' = [call EXCEPT ![c] =
                  IF outcome = "reject"
                  THEN [@ EXCEPT !.pc = "rejected", !.outcome = outcome]
                  ELSE [@ EXCEPT !.pc = "done", !.outcome = outcome,
                                 !.result = Connection(Fetch(cfg, totalCount, outcome),
                                                       call[c].args, call[c].mapper, call[c].w)]]
  /\ UNCHANGED <<totalCount, source, walk>>

(***************************************************************************)
(* Inputs                                                                  *)
(***************************************************************************)
\* cursors offsetToCursor produces, for offsets below, inside and at the end
\* of the collection
CursorOffsets == (-2)..MaxCount

\* strings that are no cursor of this encoding: "", a cursor of
\* graphql-relay's arrayconnection ('arrayconnection:1'), and the prefix
\* followed by a letter
MalformedCursors ==
  { << >>,
    base64(<<97, 114, 114, 97, 121>> \o SubSeq(PREFIX, 8, 18) \o <<49>>),
    base64(PREFIX \o <<120>>) }

CursorArgs ==
  {undefined} \cup {Str(offsetToCursor(o)) : o \in CursorOffsets}
              \cup {Str(s) : s \in MalformedCursors}

NumberArgs == {undefined} \cup {Num(n) : n \in (-1)..MaxArg}

AllArgs == [after : CursorArgs, before : CursorArgs, first : NumberArgs, last : NumberArgs]

(***************************************************************************)
(* Spec: one call with any arguments on any binding                        *)
(***************************************************************************)
Init ==
  /\ totalCount \in 0..MaxCount
  /\ source = [b \in Bindings |-> Unconfigured]
  /\ call = [c \in Calls |-> Idle]
  /\ walk = WalkOff

\* a caller invokes one of the three functions
Invoke ==
  /\ call[1].pc = "idle"
  /\ \E b \in Bindings, args \in AllArgs, mapper \in BOOLEAN : Call(1, b, args, mapper)

Next ==
  \/ Invoke
  \/ CountResolved(1)
  \/ FetchResolved(1)

Spec == Init /\ [][Next]_vars
(***************************************************************************)
(* SpecConcurrent: two calls whose steps interleave at the suspension      *)
(* points, on the same caller-supplied objects                             *)
(***************************************************************************)
ConcurrentArgs ==
  [after : {undefined, Str(offsetToCursor(0))},
   before : {undefined},
   first : {undefined, Num(1), Num(2)},
   last : {undefined, Num(1)}]

InvokeConcurrently ==
  \E c \in Calls :
    /\ call[c].pc = "idle"
    /\ \E b \in Bindings, args \in ConcurrentArgs : Call(c, b, args, FALSE)

NextConcurrent ==
  \/ InvokeConcurrently
  \/ \E c \in Calls : CountResolved(c)
  \/ \E c \in Calls : FetchResolved(c)

SpecConcurrent == Init /\ [][NextConcurrent]_vars

(***************************************************************************)
(* SpecWalk: a client pages forward with a fixed page size: first = n, and *)
(* after = the previous page's endCursor while hasNextPage is true         *)
(***************************************************************************)
\* no walk over a collection of at most MaxWalkCount records needs more pages
MaxPages == MaxWalkCount + 2

InitWalk ==
  /\ totalCount \in 0..MaxWalkCount
  /\ source = [b \in Bindings |-> Unconfigured]
  /\ call = [c \in Calls |-> Idle]
  /\ walk \in {[WalkOff EXCEPT !.state = "walking", !.binding = b, !.mapper = m, !.n = n] :
                 b \in Bindings, m \in BOOLEAN, n \in 1..MaxWalkCount}

\* the client asks for the next page
WalkCall ==
  /\ walk.state = "walking"
  /\ Len(walk.sizes) < MaxPages
  /\ Call(1, walk.binding, [NoArgs EXCEPT !.first = Num(walk.n), !.after = walk.after],
          walk.mapper)

\* the client takes the returned page and decides whether to go on
WalkCollect ==
  /\ walk.state = "walking"
  /\ call[1].pc = "done"
  /\ \E page \in {call[1].result} :
       walk' = [walk EXCEPT
                  !.acc = @ \o [i \in 1..Len(page.edges) |-> page.edges[i].node.pos],
                  !.sizes = Append(@, Len(page.edges)),
                  !.after = IF page.pageInfo.endCursor = null THEN @
                            ELSE page.pageInfo.endCursor,
                  !.state = IF ~page.pageInfo.hasNextPage THEN "finished"
                            ELSE IF page.pageInfo.endCursor = null THEN "stuck"
                            ELSE "walking"]
  /\ call' = [call EXCEPT ![1] = Idle]
  /\ UNCHANGED <<totalCount, source>>

NextWalk ==
  \/ WalkCall
  \/ CountResolved(1)
  \/ FetchResolved(1)
  \/ WalkCollect

\* an awaited count or fetch resolves and its continuation runs; the client
\* keeps asking while there is a next page
SpecWalk == InitWalk /\ [][NextWalk]_vars /\ WF_vars(NextWalk)

(***************************************************************************)
(* A call as a function of its inputs: the connection it returns when no   *)
(* other call touches its source                                           *)
(***************************************************************************)
ConnectionOfWindow(w, args, mapper, count, outcome) ==
  Connection(IF w.limit = 0 THEN << >>
             ELSE Fetch(Configure(Unconfigured, w.skip, w.limit), count, outcome),
             args, mapper, w)

ConnectionAlone(binding, args, mapper, count, outcome) ==
  Strictly(LAMBDA w : ConnectionOfWindow(w, args, mapper, count, outcome),
           Window(binding, args, count))

(***************************************************************************)
(* Properties                                                              *)
(***************************************************************************)
Returned(c) == call[c].pc = "done"

\* the absolute positions of the records of a connection's edges, in order
Positions(connection) ==
  [i \in 1..Len(connection.edges) |-> connection.edges[i].node.pos]

\* the positions from..to in order (none when to < from)
Range(from, to) == [i \in 1..Max(to - from + 1, 0) |-> from + i - 1]

\* C1: on every binding, a call with only last = n (n >= 0) returns the
\* items at offsets max(0, totalCount - n) .. totalCount - 1 in order, with
\* hasPreviousPage = (n < totalCount) and hasNextPage = false.
C1_LastOnly ==
  \A c \in Calls :
    ( /\ Returned(c)
      /\ call[c].args.after = undefined
      /\ call[c].args.before = undefined
      /\ call[c].args.first = undefined
      /\ call[c].args.last # undefined
      /\ call[c].args.last[2] >= 0 )
    => /\ Positions(call[c].result)
            = Range(Max(0, totalCount - call[c].args.last[2]), totalCount - 1)
       /\ call[c].result.pageInfo.hasPreviousPage = (call[c].args.last[2] < totalCount)
       /\ call[c].result.pageInfo.hasNextPage = FALSE

\* C2: whenever the resolved window is empty or inverted
\* (endOffset - startOffset <= 0), the limit applied to the source is 0, the
\* fetch is never invoked, and the returned connection has no edges.
C2_EmptyWindowNoFetch ==
  \A c \in Calls :
    ( /\ call[c].pc \in {"fetch", "done", "rejected"}
      /\ call[c].w.endOffset - call[c].w.startOffset <= 0 )
    => /\ Target(c).limit = Num(0)
       /\ ~call[c].fetchInvoked
       /\ Returned(c) => Len(call[c].result.edges) = 0

\* C3: hasPreviousPage is false whenever last is not supplied and hasNextPage
\* is false whenever first is not supplied; when the argument is supplied the
\* flag is startOffset > lowerBound, respectively endOffset < upperBound.
C3_FlagsNeedArgument ==
  \A c \in Calls :
    Returned(c) =>
      LET a == call[c].args
          w == call[c].w
          info == call[c].result.pageInfo
      IN  /\ a.last = undefined => info.hasPreviousPage = FALSE
          /\ a.first = undefined => info.hasNextPage = FALSE
          /\ a.last # undefined =>
               info.hasPreviousPage = (w.startOffset > LowerBound(a.after, w.afterOffset))
          /\ a.first # undefined =>
               info.hasNextPage = (w.endOffset < UpperBound(a.before, w.beforeOffset, w.count))

\* C4: every returned edge's cursor decodes to the absolute position of the
\* edge's record in the collection, and no edge carries a cursor for a
\* negative offset.
C4_EdgeCursorIsPosition ==
  \A c \in Calls :
    Returned(c) =>
      \A i \in 1..Len(call[c].result.edges) :
        /\ cursorToOffset(call[c].result.edges[i].cursor)
             = Num(call[c].result.edges[i].node.pos)
        /\ cursorToOffset(call[c].result.edges[i].cursor)[2] >= 0

\* C5: a call leaves the skip and limit of the caller-supplied source object
\* as they were before the call.
C5_SourceUnmodified ==
  \A c \in Calls :
    call[c].pc # "idle" => source[call[c].binding] = Unconfigured

\* C6: when two calls on the same source interleave at their suspension
\* points, each returns exactly the connection it would return alone.
C6_CallsIsolated ==
  \A c \in Calls :
    Returned(c) =>
      call[c].result = ConnectionAlone(call[c].binding, call[c].args, call[c].mapper,
                                       totalCount, call[c].outcome)

\* the arguments of C7 with after = offsetToCursor(a), or absent when a = -1
FirstAfterArgs(c, a) ==
  /\ call[c].args.first # undefined
  /\ call[c].args.first[2] >= 0
  /\ call[c].args.before = undefined
  /\ call[c].args.last = undefined
  /\ call[c].args.after = IF a = -1 THEN undefined ELSE Str(offsetToCursor(a))

\* C7: a call with first = n (n >= 0), optionally after = offsetToCursor(a)
\* with 0 <= a < totalCount, and no before/last returns the items at offsets
\* s .. min(s + n, totalCount) - 1 in order, s = a + 1 (0 without after),
\* never more than n edges, hasNextPage = (s + n < totalCount) and
\* hasPreviousPage = false; the call does not fail.
C7_FirstAfter ==
  \A c \in Calls : \A a \in (-1)..(totalCount - 1) :
    FirstAfterArgs(c, a) =>
      /\ call[c].pc # "rejected"
      /\ Returned(c) =>
           LET n == call[c].args.first[2]
               s == a + 1
           IN  /\ Positions(call[c].result) = Range(s, Min(s + n, totalCount) - 1)
               /\ Len(call[c].result.edges) <= n
               /\ call[c].result.pageInfo.hasNextPage = (s + n < totalCount)
               /\ call[c].result.pageInfo.hasPreviousPage = FALSE

\* a call with after = offsetToCursor(0) and first = 2 on two items returned
\* the one item behind the cursor
C7_Witness ==
  /\ Returned(1)
  /\ totalCount = 2
  /\ FirstAfterArgs(1, 0)
  /\ call[1].args.first = Num(2)
  /\ Positions(call[1].result) = <<1>>
  /\ ~call[1].result.pageInfo.hasNextPage

EmptyConnection(c) ==
  /\ Len(call[c].result.edges) = 0
  /\ call[c].result.pageInfo.startCursor = null
  /\ call[c].result.pageInfo.endCursor = null
  /\ call[c].result.pageInfo.hasPreviousPage = FALSE
  /\ call[c].result.pageInfo.hasNextPage = FALSE

\* C8 as stated: whenever the total count is 0, for any arguments and any
\* binding, the returned connection has no edges, null startCursor and
\* endCursor, and both flags false.
C8_EmptyCollection ==
  \A c \in Calls : (Returned(c) /\ totalCount = 0) => EmptyConnection(c)

\* first and last, when supplied, are not negative, and after, when
\* supplied, does not decode to an offset below -1
PlainArgs(args) ==
  /\ args.first = undefined \/ args.first[2] >= 0
  /\ args.last = undefined \/ args.last[2] >= 0
  /\ \/ args.after = undefined
     \/ cursorToOffset(args.after[2]) = NaN
     \/ cursorToOffset(args.after[2])[2] >= -1

\* C8 amended: whenever the total count is 0, for any binding and any
\* arguments whose first and last, when supplied, are not negative and whose
\* after, when supplied, does not decode to an offset below -1, the returned
\* connection has no edges, null cursors and both flags false.
C8_EmptyCollectionPlainArgs ==
  \A c \in Calls :
    (Returned(c) /\ totalCount = 0 /\ PlainArgs(call[c].args)) => EmptyConnection(c)

\* a call on the empty collection with after, first and last supplied returned
C8_Witness ==
  /\ Returned(1)
  /\ totalCount = 0
  /\ call[1].args.after = Str(offsetToCursor(1))
  /\ call[1].args.first = Num(1)
  /\ call[1].args.last = Num(1)
  /\ EmptyConnection(1)

\* a string that is no cursor of this encoding
Malformed(v) == IsStr(v) /\ v[2] \in MalformedCursors

\* the arguments with every malformed cursor left out
WithoutMalformed(args) ==
  [args EXCEPT !.after = IF Malformed(@) THEN undefined ELSE @,
               !.before = IF Malformed(@) THEN undefined ELSE @]

\* the offset a call resolved for a cursor argument is the default: the
\* argument is undefined, or it is malformed and decodes to NaN
DefaultsTo(cursor, offset, defaultOffset) ==
  /\ cursor = undefined => offset = defaultOffset
  /\ Malformed(cursor) => (cursorToOffset(cursor[2]) = NaN /\ offset = defaultOffset)

\* C9: getOffsetWithDefault gives the default offset for a cursor that is
\* undefined or decodes to NaN, and a call with a malformed after and/or
\* before returns exactly the connection of the same call without that
\* argument (and fails only where that call fails).
C9_MalformedCursorIsAbsent ==
  \A c \in Calls :
    call[c].pc \in {"fetch", "done", "rejected"} =>
      /\ DefaultsTo(call[c].args.after, call[c].w.afterOffset, -1)
      /\ DefaultsTo(call[c].args.before, call[c].w.beforeOffset, totalCount)
      /\ (Malformed(call[c].args.after) \/ Malformed(call[c].args.before)) =>
           /\ Returned(c) =>
                call[c].result
                  = ConnectionAlone(call[c].binding, WithoutMalformed(call[c].args),
                                    call[c].mapper, totalCount, call[c].outcome)
           /\ call[c].pc = "rejected" =>
                Window(call[c].binding, WithoutMalformed(call[c].args), totalCount).limit < 0

\* a call with a malformed after and a malformed before returned edges
C9_Witness ==
  /\ Returned(1)
  /\ Malformed(call[1].args.after)
  /\ Malformed(call[1].args.before)
  /\ call[1].args.after # call[1].args.before
  /\ Len(call[1].result.edges) > 1

\* the walk ended on a page without a next page, having collected every
\* item once and in order, every page but the last of full size
WalkComplete ==
  /\ walk.acc = Range(0, totalCount - 1)
  /\ \A i \in 1..(Len(walk.sizes) - 1) : walk.sizes[i] = walk.n

\* C10: paging forward with first = n >= 1 from no cursor, passing each
\* page's endCursor as after while hasNextPage is true, reaches a page with
\* hasNextPage = false after finitely many calls, and the pages concatenate to
\* the items 0 .. N-1, each once and in order, every page except possibly the
\* last holding n edges.
C10_ForwardWalk ==
  /\ <>(walk.state = "finished")
  /\ [](walk.state = "finished" => WalkComplete)
  /\ [](walk.state # "stuck")

\* a walk of more than one page over a collection the page size does not
\* divide has finished
C10_Witness ==
  /\ walk.state = "finished"
  /\ Len(walk.sizes) > 1
  /\ walk.sizes[Len(walk.sizes)] < walk.n
  /\ WalkComplete

=============================================================================
